---- MODULE Spec2Model ----
(***************************************************************************)
(* Model of chess_dashboard.py: a Streamlit script that loads a table of   *)
(* chess games, filters it by five sidebar multiselects and derives        *)
(* metrics and ranked tables from the filtered view.  Streamlit runs the   *)
(* whole script once when the page opens and once again after every widget *)
(* change; each action below is one widget change followed by that run.    *)
(*                                                                         *)
(* A DataFrame is a sequence of records (one per row, in row order), a     *)
(* Series is a sequence of values or, after value_counts, a function from  *)
(* the index labels to the counts.  A missing cell is the value NaN.  A    *)
(* float is the exact fraction num/den; den = 0 is the float nan (0/0).    *)
(***************************************************************************)
EXTENDS Integers, Sequences, FiniteSets, TLC

VARIABLES source,        \* the rows of ../data/chess_games_data.csv
          chess,         \* line 17: the loaded table
          session,       \* the values of the five sidebar multiselects
          filtered,      \* lines 29-37
          num_games,     \* line 47
          avg_turns,     \* line 48
          rated_pct,     \* line 49
          pop,           \* lines 58-59
          setup,         \* lines 86-88
          openings,      \* lines 102-103 (rebinds the name read at line 25)
          player_stats   \* lines 115-116

vars == <<source, chess, session, filtered, num_games, avg_turns, rated_pct,
          pop, setup, openings, player_stats>>

MaxRows == 2

MaxRankRows == 3

NaN == "NaN"

(***************************************************************************)
(* The files the script is run on: up to a bounded number of games, in any *)
(* order and with repetition.  A line repeated in the file repeats its     *)
(* game_id; two different games have different ids.                        *)
(***************************************************************************)
Game(id, r, t, v, w, ti, o, wh, bl) ==
    [game_id |-> id, rated |-> r, turns |-> t, victory_status |-> v, winner |-> w,
     time_increment |-> ti, opening_shortname |-> o,
     white_id |-> wh, black_id |-> bl, moves |-> "e4 e5"]

\* games for the filters: every filter column has a game with a missing cell
Games ==
    { Game(1, "True",  2, "mate",   "White", "10+0", "Sicilian", "a", "b"),
      Game(2, "False", 4, "mate",   "Black", "10+0", "Italian",  "b", "c"),
      Game(3, NaN,     3, "mate",   "Draw",  "10+0", "Italian",  "a", "b"),
      Game(4, "True",  2, NaN,      "White", "10+0", "Sicilian", "c", "a"),
      Game(5, "True",  5, "mate",   "Black", NaN,    "Sicilian", "a", "b"),
      Game(6, "False", 2, "mate",   "White", "10+0", NaN,        "b", "a") }

\* games for the rankings: complete rows, two openings and two time controls
RankGames ==
    { Game(1, "True", 2, "mate", "White", "10+0", "Sicilian", "a", "b"),
      Game(2, "True", 4, "mate", "Black", "5+5",  "Italian",  "a", "b"),
      Game(3, "True", 3, "mate", "Draw",  "5+5",  "Sicilian", "b", "a") }

RECURSIVE SeqsUpTo(_, _)
SeqsUpTo(S, n) ==
    IF n = 0 THEN {<<>>}
    ELSE LET shorter == SeqsUpTo(S, n - 1)
         IN  shorter \cup {Append(s, x) : s \in {t \in shorter : Len(t) = n - 1}, x \in S}

Sources == SeqsUpTo(Games, MaxRows)

RankSources == SeqsUpTo(RankGames, MaxRankRows)

(***************************************************************************)
(* pandas operations                                                       *)
(***************************************************************************)
Column(df, col) == [i \in 1..Len(df) |-> df[i][col]]

concat(s, t) == s \o t

\* faulty variant: unique() without dropna()
unique_keepna(series) == {series[i] : i \in 1..Len(series)}

dropna_unique(series) == {series[i] : i \in 1..Len(series)} \ {NaN}

isin(series, values) == [i \in 1..Len(series) |-> series[i] \in values]

\* faulty variant: the mask is applied from the second row on
BoolIndexFromSecond(df, mask) ==
    LET kept == {i \in 2..Len(df) : mask[i]}
    IN  [k \in 1..Cardinality(kept) |->
            df[CHOOSE i \in kept : Cardinality({j \in kept : j <= i}) = k]]

\* df[mask]: the rows whose mask cell is True, in row order
BoolIndex(df, mask) ==
    LET kept == {i \in 1..Len(df) : mask[i]}
    IN  [k \in 1..Cardinality(kept) |->
            df[CHOOSE i \in kept : Cardinality({j \in kept : j <= i}) = k]]

head(s, n) == SubSeq(s, 1, IF Len(s) < n THEN Len(s) ELSE n)

RECURSIVE sum(_)
sum(series) == IF series = <<>> THEN 0 ELSE Head(series) + sum(Tail(series))

mean(series) == [num |-> sum(series), den |-> Len(series)]

\* the rated column holds booleans; sum() counts the True cells and skips NaN
AsInt(series) == [i \in 1..Len(series) |-> IF series[i] = "True" THEN 1 ELSE 0]

value_counts(series) ==
    [v \in dropna_unique(series) |->
        Cardinality({i \in 1..Len(series) : series[i] = v})]

RECURSIVE Orderings(_)
Orderings(S) ==
    IF S = {} THEN {<<>>}
    ELSE UNION {{<<x>> \o s : s \in Orderings(S \ {x})} : x \in S}

\* faulty variant: ascending order
sort_values_asc(S, key) ==
    {s \in Orderings(S) : \A i \in 1..Len(s) - 1 : key[s[i]] <= key[s[i + 1]]}

\* sort_values(ascending=False) with the default sort kind, which is not
\* stable: equal keys come out in whatever order the numpy build produces
sort_values(S, key) ==
    {s \in Orderings(S) : \A i \in 1..Len(s) - 1 : key[s[i]] >= key[s[i + 1]]}

add(s, t) ==
    [k \in DOMAIN s \cup DOMAIN t |->
        (IF k \in DOMAIN s THEN s[k] ELSE 0) + (IF k \in DOMAIN t THEN t[k] ELSE 0)]

nan == [num |-> 0, den |-> 0]

\* (s / t) * 100, aligned on the union of the two indexes
percent(s, t) ==
    [k \in DOMAIN s \cup DOMAIN t |->
        IF k \in DOMAIN s /\ k \in DOMAIN t
        THEN [num |-> s[k] * 100, den |-> t[k]]
        ELSE nan]

(***************************************************************************)
(* The script                                                              *)
(***************************************************************************)
TopN == 10

\* lines 10-15: read the file, drop the two unused columns, index by game_id
\* (set_index keeps every row: verify_integrity is off by default)
load_data(src) ==
    [i \in 1..Len(src) |->
        [game_id |-> src[i].game_id, rated |-> src[i].rated, turns |-> src[i].turns,
         victory_status |-> src[i].victory_status, winner |-> src[i].winner,
         time_increment |-> src[i].time_increment,
         opening_shortname |-> src[i].opening_shortname,
         white_id |-> src[i].white_id, black_id |-> src[i].black_id]]

\* lines 22-26: the choices each multiselect offers
Options(df) ==
    [rated_options   |-> {"True", "False"},
     victory_options |-> dropna_unique(Column(df, "victory_status")),
     time_increments |-> dropna_unique(Column(df, "time_increment")),
     openings        |-> dropna_unique(Column(df, "opening_shortname")),
     players         |-> dropna_unique(concat(Column(df, "white_id"), Column(df, "black_id")))]

\* lines 22-26: the default= of each multiselect (none for the player one)
Defaults(df) == [Options(df) EXCEPT !.players = {}]

\* faulty variant: the player must be on both sides (& for |)
ApplyFiltersBothSides(df, s) ==
    LET rated_ok   == isin(Column(df, "rated"), s.rated_options)
        victory_ok == isin(Column(df, "victory_status"), s.victory_options)
        time_ok    == isin(Column(df, "time_increment"), s.time_increments)
        opening_ok == isin(Column(df, "opening_shortname"), s.openings)
        first      == BoolIndex(df, [i \in 1..Len(df) |->
                          rated_ok[i] /\ victory_ok[i] /\ time_ok[i] /\ opening_ok[i]])
        white_in   == isin(Column(first, "white_id"), s.players)
        black_in   == isin(Column(first, "black_id"), s.players)
    IN  IF s.players # {}
        THEN BoolIndex(first, [i \in 1..Len(first) |-> white_in[i] /\ black_in[i]])
        ELSE first

\* lines 29-37
ApplyFilters(df, s) ==
    LET rated_ok   == isin(Column(df, "rated"), s.rated_options)
        victory_ok == isin(Column(df, "victory_status"), s.victory_options)
        time_ok    == isin(Column(df, "time_increment"), s.time_increments)
        opening_ok == isin(Column(df, "opening_shortname"), s.openings)
        first      == BoolIndex(df, [i \in 1..Len(df) |->
                          rated_ok[i] /\ victory_ok[i] /\ time_ok[i] /\ opening_ok[i]])
        white_in   == isin(Column(first, "white_id"), s.players)
        black_in   == isin(Column(first, "black_id"), s.players)
    IN  IF s.players # {}
        THEN BoolIndex(first, [i \in 1..Len(first) |-> white_in[i] \/ black_in[i]])
        ELSE first

\* line 48
AvgTurns(view) == mean(Column(view, "turns"))

\* faulty variant: the division without the num_games > 0 guard
RatedPctUnguarded(view) ==
    [num |-> sum(AsInt(Column(view, "rated"))) * 100, den |-> Len(view)]

\* line 49
RatedPct(view) ==
    IF Len(view) > 0
    THEN [num |-> sum(AsInt(Column(view, "rated"))) * 100, den |-> Len(view)]
    ELSE [num |-> 0, den |-> 1]

\* lines 58-59 and 86-88: value_counts().head(10).reset_index() of one column
TopCounts(view, col) ==
    LET counts == value_counts(Column(view, col))
    IN  {head([i \in 1..Len(s) |-> [Value |-> s[i], Count |-> counts[s[i]]]], TopN)
            : s \in sort_values(DOMAIN counts, counts)}

Won(view, colour) ==
    BoolIndex(view, [i \in 1..Len(view) |-> view[i].winner = colour])

\* lines 102-103
WhiteWinOpenings(view) == TopCounts(Won(view, "White"), "opening_shortname")

\* lines 110-116
PlayerStats(view) ==
    LET white_wins  == value_counts(Column(Won(view, "White"), "white_id"))
        black_wins  == value_counts(Column(Won(view, "Black"), "black_id"))
        total_wins  == add(white_wins, black_wins)
        total_games == add(value_counts(Column(view, "white_id")),
                           value_counts(Column(view, "black_id")))
        winrate     == percent(total_wins, total_games)
        \* DataFrame(...).dropna(): rows with a Games and a WinRate
        kept        == {k \in DOMAIN total_games \cup DOMAIN winrate :
                           k \in DOMAIN total_games /\ winrate[k].den # 0}
    IN  {head([i \in 1..Len(s) |->
                  [Player |-> s[i], Games |-> total_games[s[i]], WinRate |-> winrate[s[i]]]],
              TopN)
            : s \in sort_values(kept, total_games)}

\* faulty variant: a run that filters the view of the previous run
RunOnView(s) ==
    LET df   == load_data(source)
        view == ApplyFilters(filtered, s)
    IN  /\ chess' = df
        /\ session' = s
        /\ filtered' = view
        /\ num_games' = Len(view)
        /\ avg_turns' = AvgTurns(view)
        /\ rated_pct' = RatedPct(view)
        /\ pop' \in TopCounts(view, "opening_shortname")
        /\ setup' \in TopCounts(view, "time_increment")
        /\ openings' \in WhiteWinOpenings(view)
        /\ player_stats' \in PlayerStats(view)
        /\ UNCHANGED source

\* one run of the script, top to bottom, with the widgets holding s
Run(s) ==
    LET df   == load_data(source)
        view == ApplyFilters(df, s)
    IN  /\ chess' = df
        /\ session' = s
        /\ filtered' = view
        /\ num_games' = Len(view)
        /\ avg_turns' = AvgTurns(view)
        /\ rated_pct' = RatedPct(view)
        /\ pop' \in TopCounts(view, "opening_shortname")
        /\ setup' \in TopCounts(view, "time_increment")
        /\ openings' \in WhiteWinOpenings(view)
        /\ player_stats' \in PlayerStats(view)
        /\ UNCHANGED source

\* the page is opened on one of the files: the first run, every multiselect
\* at its default
InitOn(files) ==
    /\ source \in files
    /\ chess = load_data(source)
    /\ session = Defaults(chess)
    /\ filtered = ApplyFilters(chess, session)
    /\ num_games = Len(filtered)
    /\ avg_turns = AvgTurns(filtered)
    /\ rated_pct = RatedPct(filtered)
    /\ pop \in TopCounts(filtered, "opening_shortname")
    /\ setup \in TopCounts(filtered, "time_increment")
    /\ openings \in WhiteWinOpenings(filtered)
    /\ player_stats \in PlayerStats(filtered)

Init == InitOn(Sources)

InitRank == InitOn(RankSources)

Toggle(S, v) == IF v \in S THEN S \ {v} ELSE S \cup {v}

\* the user adds or removes one choice of a multiselect; Streamlit reruns
SelectRated ==
    \E v \in Options(chess).rated_options :
        Run([session EXCEPT !.rated_options = Toggle(@, v)])

SelectVictory ==
    \E v \in Options(chess).victory_options :
        Run([session EXCEPT !.victory_options = Toggle(@, v)])

SelectTime ==
    \E v \in Options(chess).time_increments :
        Run([session EXCEPT !.time_increments = Toggle(@, v)])

SelectOpening ==
    \E v \in Options(chess).openings :
        Run([session EXCEPT !.openings = Toggle(@, v)])

SelectPlayer ==
    \E v \in Options(chess).players :
        Run([session EXCEPT !.players = Toggle(@, v)])

Next == SelectRated \/ SelectVictory \/ SelectTime \/ SelectOpening \/ SelectPlayer

Spec == Init /\ [][Next]_vars

SpecRank == InitRank /\ [][Next]_vars

(***************************************************************************)
(* Properties.  They are stated over the rows themselves, not through the  *)
(* operators above.                                                        *)
(***************************************************************************)
Rows(df) == 1..Len(df)

FourSelections(s) ==
    {s.rated_options, s.victory_options, s.time_increments, s.openings}

\* r is accepted by every attribute set and, if any player is selected, has
\* a selected player on one side
Accepts(r, s) ==
    /\ r.rated \in s.rated_options
    /\ r.victory_status \in s.victory_options
    /\ r.time_increment \in s.time_increments
    /\ r.opening_shortname \in s.openings
    /\ s.players # {} => (r.white_id \in s.players \/ r.black_id \in s.players)

Retained(df, s) == SelectSeq(df, LAMBDA r : Accepts(r, s))

\* the same, an empty set accepting every value of its attribute
AcceptsOrEmpty(r, s) ==
    /\ s.rated_options = {} \/ r.rated \in s.rated_options
    /\ s.victory_options = {} \/ r.victory_status \in s.victory_options
    /\ s.time_increments = {} \/ r.time_increment \in s.time_increments
    /\ s.openings = {} \/ r.opening_shortname \in s.openings
    /\ s.players = {} \/ r.white_id \in s.players \/ r.black_id \in s.players

Complete(r) ==
    /\ r.rated # NaN
    /\ r.victory_status # NaN
    /\ r.time_increment # NaN
    /\ r.opening_shortname # NaN

IsZero(x) == x.den # 0 /\ x.num = 0

\* C1: with the four attribute sets non-empty, the view is exactly the rows
\* of the dataset, in order, whose four attributes are in their sets and, when
\* players are selected, whose white or black player is selected.
FilterMatchesCriteria ==
    {} \notin FourSelections(session) => filtered = Retained(chess, session)

\* C1 witness: players selected, some rows kept and some dropped
FilterKeepsSomeDropsSome ==
    /\ {} \notin FourSelections(session)
    /\ session.players # {}
    /\ filtered # <<>>
    /\ Len(filtered) < Len(chess)
    /\ \E i \in Rows(chess) : Complete(chess[i]) /\ ~Accepts(chess[i], session)

\* C2: an empty set for one of the four attributes accepts every value of it:
\* whatever the user selects among the choices offered, a row is dropped only
\* by a non-empty set that lacks its value or by the selected players.
EmptySelectionAcceptsAll ==
    {} \notin FourSelections(Options(chess))
        => filtered = SelectSeq(chess, LAMBDA r : AcceptsOrEmpty(r, session))

\* C3, as claimed: with the default selections the view is the whole dataset.
DefaultsKeepEveryRow ==
    session = Defaults(chess) => filtered = chess

\* C3, amended: with the default selections the view is, in dataset order,
\* exactly the rows with no missing cell in the four filter columns.
DefaultsKeepCompleteRows ==
    session = Defaults(chess) => filtered = SelectSeq(chess, Complete)

\* C3 witness: defaults, and a row with a missing cell was dropped
DefaultsDropIncompleteRow ==
    /\ session = Defaults(chess)
    /\ filtered # <<>>
    /\ Len(filtered) < Len(chess)

PlayersOf(view) ==
    {view[i].white_id : i \in Rows(view)} \cup {view[i].black_id : i \in Rows(view)}

GamesOf(view, p) ==
    Cardinality({i \in Rows(view) : view[i].white_id = p})
      + Cardinality({i \in Rows(view) : view[i].black_id = p})

WinsOf(view, p) ==
    Cardinality({i \in Rows(view) : view[i].winner = "White" /\ view[i].white_id = p})
      + Cardinality({i \in Rows(view) : view[i].winner = "Black" /\ view[i].black_id = p})

Smaller(a, b) == IF a < b THEN a ELSE b

\* C4: player_stats ranks every player of the view, those without a win too
\* (rate 0): the TopN with the most games, by games descending, each with
\* rate 100 * wins / games.
PlayerStatsRanksEveryPlayer ==
    LET ranked == {player_stats[k].Player : k \in Rows(player_stats)}
    IN  /\ Len(player_stats) = Smaller(TopN, Cardinality(PlayersOf(filtered)))
        /\ Cardinality(ranked) = Len(player_stats)
        /\ ranked \subseteq PlayersOf(filtered)
        /\ \A k \in Rows(player_stats) :
              LET e == player_stats[k]
              IN  /\ e.Games = GamesOf(filtered, e.Player)
                  /\ e.WinRate.den # 0
                  /\ e.WinRate.num * e.Games = 100 * WinsOf(filtered, e.Player) * e.WinRate.den
                  /\ \A l \in Rows(player_stats) : k < l => e.Games >= player_stats[l].Games
                  /\ \A p \in PlayersOf(filtered) \ ranked : GamesOf(filtered, p) <= e.Games

\* C5: the average number of turns of an empty view is 0.
EmptyViewAverageIsZero ==
    filtered = <<>> => IsZero(avg_turns)

RatedRows(view) == {i \in Rows(view) : view[i].rated = "True"}

\* C6: rated_pct is 100 * (rated rows) / (rows) of a non-empty view and 0 of
\* an empty one, and lies between 0 and 100.
RatedPctIsShareOfRated ==
    /\ rated_pct.den > 0
    /\ filtered # <<>> =>
          rated_pct.num * Len(filtered) = 100 * Cardinality(RatedRows(filtered)) * rated_pct.den
    /\ filtered = <<>> => rated_pct.num = 0
    /\ 0 <= rated_pct.num
    /\ rated_pct.num <= 100 * rated_pct.den

\* C6 witness: a view of rated and unrated games, half of them rated
RatedPctOfMixedView ==
    /\ Len(filtered) = 2
    /\ Cardinality(RatedRows(filtered)) = 1
    /\ rated_pct.num = 50 * rated_pct.den

\* C7: no two rows of the loaded dataset have the same game_id.
UniqueGameIds ==
    \A i, j \in Rows(chess) : i # j => chess[i].game_id # chess[j].game_id

\* C8: filtering the view again with the same criteria changes nothing.
FilterIdempotent ==
    ApplyFilters(ApplyFilters(chess, session), session) = ApplyFilters(chess, session)

\* C8 witness: the first filtering dropped rows and kept rows
RefilteredProperView ==
    /\ ApplyFilters(filtered, session) = filtered
    /\ filtered # <<>>
    /\ filtered # chess
    /\ session # Defaults(chess)

\* C9: every interaction leaves the source and the dataset as they were and
\* leaves as view the dataset filtered with the criteria now selected.
ViewOfCurrentCriteria ==
    [][/\ source' = source
       /\ chess' = chess
       /\ filtered' = Retained(chess, session')]_vars

\* C9 witness: after interactions, only unrated games selected and shown
OnlyUnratedShown ==
    /\ session.rated_options = {"False"}
    /\ filtered # <<>>
    /\ Len(filtered) < Len(chess)

Occurrences(series, v) == Cardinality({i \in Rows(series) : series[i] = v})

FirstSeen(series, v) == CHOOSE i \in Rows(series) : series[i] = v /\ \A j \in 1..(i - 1) : series[j] # v

Present(series) == {series[i] : i \in Rows(series)} \ {NaN}

\* table lists distinct values of the series with their counts, the TopN most
\* frequent ones (all of them when there are fewer)
IsCountTable(table, series) ==
    /\ Len(table) = Smaller(TopN, Cardinality(Present(series)))
    /\ \A k \in Rows(table) :
          /\ table[k].Value \in Present(series)
          /\ table[k].Count = Occurrences(series, table[k].Value)
          /\ \A l \in Rows(table) : k # l => table[k].Value # table[l].Value
          /\ \A v \in Present(series) \ {table[l].Value : l \in Rows(table)} :
                Occurrences(series, v) <= table[k].Count

\* by count descending
IsByCountDescending(table, series) ==
    /\ IsCountTable(table, series)
    /\ \A k, l \in Rows(table) : k < l => table[k].Count >= table[l].Count

\* by count descending, equal counts in order of first occurrence in the view
IsByCountThenFirstSeen(table, series) ==
    /\ IsByCountDescending(table, series)
    /\ \A k, l \in Rows(table) :
          (k < l /\ table[k].Count = table[l].Count)
              => FirstSeen(series, table[k].Value) < FirstSeen(series, table[l].Value)

====
